---- MODULE Spec2Model ----
(* Model of src/server.js: the recurring aggregation scheduler.            *)
(* State: the module-level variables scheduler, isRunning and              *)
(* activeIntervals, the timers the runtime keeps armed, the suspended      *)
(* activations of runAutoSearch, the clock and the snapshot files.         *)
(* One action per request handler, per timer callback and per resumption   *)
(* of a suspended runAutoSearch (the code between two awaits runs          *)
(* atomically on the single event loop).                                   *)
EXTENDS Integers, Sequences, FiniteSets, Bags, TLC

(***************************************************************************)
(* Bounds of the model                                                     *)
(***************************************************************************)
\* timers ever armed by setInterval
MaxTimers == 2
\* activations of runAutoSearch suspended at the same time
MaxPasses == 2
\* largest value Date.now() takes
MaxClock == 1
\* raw items one pass collects
MaxItems == 1
\* the value of Date.now() when the late server boots, one below the
\* first value written with two digits
BootClock == 9
\* raw items in a list handed to the normalize / deduplicate / filter steps
MaxInput == 3

(***************************************************************************)
(* JavaScript values: strings are sequences of characters, a character is  *)
(* a string naming one code unit.                                          *)
(***************************************************************************)
Str(s) == [t |-> "str", v |-> s]
Undef == [t |-> "undef", v |-> <<>>]
\* a non-zero number, e.g. 42
Num == [t |-> "num", v |-> <<>>]

\* ToBoolean: undefined and '' are falsy
Truthy(x) == \/ x.t = "num"
             \/ x.t = "str" /\ x.v # <<>>

\* a || b
Or(a, b) == IF Truthy(a) THEN a ELSE b

Upper == <<"A","B","C","D","E","F","G","H","I","J","K","L","M",
           "N","O","P","Q","R","S","T","U","V","W","X","Y","Z">>
Lower == <<"a","b","c","d","e","f","g","h","i","j","k","l","m",
           "n","o","p","q","r","s","t","u","v","w","x","y","z">>

LowerChar(c) == IF \E i \in 1..26 : Upper[i] = c
                THEN Lower[CHOOSE i \in 1..26 : Upper[i] = c]
                ELSE c

\* String.prototype.toLowerCase
toLowerCase(s) == [i \in 1..Len(s) |-> LowerChar(s[i])]

\* String.prototype.includes
includes(s, term) ==
  \E i \in 0..(Len(s) - Len(term)) :
     \A j \in 1..Len(term) : s[i + j] = term[j]

\* the fourth term is Arabic: its characters are named by code point
AUTO_TERMS == <<
  <<"i","p","t","v">>,
  <<"m","3","u">>,
  <<"b","e","i","n">>,
  <<"U+0628","U+062B"," ","U+0645","U+0628","U+0627","U+0634","U+0631">>,
  <<"w","o","r","l","d","-","i","p","t","v",".","c","l","u","b">>,
  <<"s","t","b","e","m","u","i","p","t","v",".","c","o","m">>,
  <<"i","p","t","v","2","l","i","v","e",".","c","o","m">>,
  <<"s","u","l","t","a","n","o","v","i","c",".","i","n","f","o">>,
  <<"t","v","a","p","p","a","p","k",".","c","o","m">>,
  <<"s","a","t","-","f","o","r","u","m",".","n","e","t">> >>

(***************************************************************************)
(* Raw provider items                                                      *)
(***************************************************************************)
Obj(title, link, url) ==
  [null |-> FALSE, title |-> title, link |-> link, url |-> url]
\* a null entry in a provider's array
RawNull == [null |-> TRUE, title |-> Undef, link |-> Undef, url |-> Undef]

RawIptv == Obj(Str(<<"A">>), Str(<<"I","P","T","V","/","a">>), Undef)
RawUrl == Obj(Str(<<"B">>), Undef, Str(<<"m","3","u","/","b">>))
RawOther == Obj(Undef, Str(<<"x","/","c">>), Undef)
RawNumLink == Obj(Str(<<"D">>), Num, Undef)

\* the items a provider answers with
RawItems == {RawIptv, RawNull}

\* the arrays a provider answers with in one response
Payloads == {<<>>} \cup {<<r>> : r \in RawItems}

(***************************************************************************)
(* The normalize / deduplicate / filter pipeline, lines 141-158            *)
(***************************************************************************)
\* reading item.title of null or undefined throws a TypeError
MapThrows(allItems) == \E i \in 1..Len(allItems) : allItems[i].null

Normalize(item) ==
  [title |-> Or(item.title, Str(<<>>)),
   link |-> Or(item.link, Or(item.url, Str(<<>>)))]

formatted(allItems) == [i \in 1..Len(allItems) |-> Normalize(allItems[i])]

\* the Map keeps the first record of each truthy link, in insertion order
RECURSIVE UniqueFrom(_, _)
UniqueFrom(fmt, acc) ==
  IF fmt = <<>> THEN acc
  ELSE LET item == Head(fmt)
           has == \E k \in 1..Len(acc) : acc[k].link = item.link
       IN  UniqueFrom(Tail(fmt),
                      IF Truthy(item.link) /\ ~has
                      THEN Append(acc, item) ELSE acc)

\* no deduplication
uniqueNone(allItems) == formatted(allItems)

uniqueResults(allItems) == UniqueFrom(formatted(allItems), <<>>)

\* item.link.toLowerCase is not a function when the link is not a string
FilterThrows(allItems) ==
  LET u == uniqueResults(allItems)
  IN  \E i \in 1..Len(u) : u[i].link.t # "str"

\* a filter that also looks for the terms in the title
MatchesTitleToo(item) ==
  \E k \in 1..Len(AUTO_TERMS) :
     \/ includes(toLowerCase(item.link.v), toLowerCase(AUTO_TERMS[k]))
     \/ includes(toLowerCase(item.title.v), toLowerCase(AUTO_TERMS[k]))

Matches(item) ==
  \E k \in 1..Len(AUTO_TERMS) :
     includes(toLowerCase(item.link.v), toLowerCase(AUTO_TERMS[k]))

filtered(allItems) == SelectSeq(uniqueResults(allItems), Matches)

(***************************************************************************)
(* Snapshot names, line 160                                                *)
(***************************************************************************)
DigitChars == <<"0","1","2","3","4","5","6","7","8","9">>

\* decimal representation of a non-negative integer
RECURSIVE Digits(_)
Digits(n) == IF n < 10 THEN <<DigitChars[n + 1]>>
             ELSE Append(Digits(n \div 10), DigitChars[(n % 10) + 1])

NamePrefix == <<"a","u","t","o","_","r","e","s","u","l","t","s","_">>
NameSuffix == <<".","j","s","o","n">>

filename(t) == NamePrefix \o Digits(t) \o NameSuffix

\* the placeholder the start response uses when there is no result
NoFile == <<"n","o","_","f","i","l","e">>

(***************************************************************************)
(* State                                                                   *)
(***************************************************************************)
VARIABLES
  scheduler,        \* line 50: the primary timer handle, NoTimer for null
  isRunning,        \* line 51: the in-flight flag
  activeIntervals,  \* line 64: the set of tracked timer handles
  liveTimers,       \* the timers the runtime holds armed and not cleared
  nextId,           \* the handle the next setInterval returns
  passes,           \* the bag of suspended activations of runAutoSearch
  now,              \* Date.now()
  files,            \* the snapshot files of the working directory
  googleCreds,      \* line 83: API_KEY && CSE_ID
  serpKey,          \* line 124: process.env.SERPAPI_API_KEY
  stopped,          \* a stop has returned and no start was issued since
  out               \* the last response or log line of a handler, or the
                    \* rate-limit notice of line 93

vars == <<scheduler, isRunning, activeIntervals, liveTimers, nextId, passes,
          now, files, googleCreds, serpKey, stopped, out>>

NoTimer == 0

\* first, last and step of the Google result offset, line 84
FirstStart == 1
LastStart == 91
StartStep == 10

\* the first suspension point of a pass: the first Google page when the
\* credentials are set (line 87), else the import of exa-js (line 105)
FirstPc == IF googleCreds THEN "google" ELSE "exa_import"

\* rearm: the activation was called by a start that replaced a live primary
\* timer while no other start was awaiting its pass, and no start or stop
\* was called since
NewPass(caller, rearm) ==
  [pc |-> FirstPc, start |-> IF googleCreds THEN FirstStart ELSE 0,
   allItems |-> <<>>, caller |-> caller, rearm |-> rearm]

\* the activations in flight, and their number
InFlight == BagToSet(passes)
executing == BagCardinality(passes)

Suspend(bag, ps) == bag (+) SetToBag({ps})
Leave(bag, ps) == bag (-) SetToBag({ps})

\* every activation in flight saw another start or stop call
Calm(ps) == [ps EXCEPT !.rearm = FALSE]

\* a call that cancels the activations in flight
Cancelled == EmptyBag

Disturbed ==
  LET T == {Calm(ps) : ps \in InFlight}
  IN  [t \in T |-> CopiesIn(t, passes)
                     + CopiesIn([t EXCEPT !.rearm = TRUE], passes)]

\* again: a stop that follows a stop with no response or log line between
\* them, or the response of a start that replaced a live primary timer while
\* no other start was awaiting its pass, with no start or stop called since
Event(op, note, code, count, results, name, error, again) ==
  [op |-> op, note |-> note, code |-> code, count |-> count,
   results |-> results, filename |-> name, error |-> error, again |-> again]

NoEvent == Event("none", "", 0, 0, <<>>, <<>>, "none", FALSE)

Init ==
  /\ scheduler = NoTimer
  /\ isRunning = FALSE
  /\ activeIntervals = {}
  /\ liveTimers = {}
  /\ nextId = 1
  /\ passes = EmptyBag
  /\ now = 0
  /\ files = {}
  /\ googleCreds \in BOOLEAN
  /\ serpKey \in BOOLEAN
  /\ stopped = FALSE
  /\ out = NoEvent

(***************************************************************************)
(* Pieces of the handlers                                                  *)
(***************************************************************************)
\* a guard that never skips
SkipsNever(running) == FALSE

\* line 67: the guard of runAutoSearch
Skips(running) == running

\* clearing nothing
ClearedNone(s, A) == {}

\* clearing the primary handle only
ClearedPrimary(s, A) == {s} \ {NoTimer}

\* lines 180-191 and 232-245: the handles passed to clearInterval
Cleared(s, A) == ({s} \ {NoTimer}) \cup A

\* lines 229-244: one for the primary handle, one for each tracked handle
stoppedCount(s, A) == (IF s # NoTimer THEN 1 ELSE 0) + Cardinality(A)

\* a stop that leaves the in-flight flag alone
StopFlagKept == isRunning

\* line 248: the value stop writes to the in-flight flag
StopFlag == FALSE

\* a catch that leaves the in-flight flag alone
TickCatchFlagKept == isRunning

\* line 203: the value the tick's catch writes to the in-flight flag
TickCatchFlag == FALSE

\* line 266
running(s, A) == s # NoTimer /\ Cardinality(A) > 0

\* line 161: writeFileSync creates the file or replaces its content
WriteFile(fs, name, data) ==
  {f \in fs : f.name # name} \cup {[name |-> name, data |-> data]}

\* lines 198-208: setInterval arms a new timer, which becomes the primary
\* handle and is added to the tracked set
Arm ==
  /\ scheduler' = nextId
  /\ activeIntervals' = activeIntervals \cup {nextId}
  /\ liveTimers' = liveTimers \cup {nextId}
  /\ nextId' = nextId + 1

timers == <<scheduler, activeIntervals, liveTimers, nextId>>
config == <<googleCreds, serpKey>>

(***************************************************************************)
(* POST /api/start-scheduler, lines 178-220, up to the first suspension    *)
(* point of its pass. When runAutoSearch returns at its guard the handler  *)
(* continues in the same turn of the event loop: it arms the timer and     *)
(* answers with an empty result and 'no_file'.                             *)
(***************************************************************************)
RECURSIVE Sum(_, _)
Sum(f, S) == IF S = {} THEN 0
             ELSE LET x == CHOOSE x \in S : TRUE
                  IN  f[x] + Sum(f, S \ {x})

\* the start calls that await their pass
startsInFlight == Sum(passes, {ps \in InFlight : ps.caller = "start"})

\* the call replaces a live primary timer and is the only start under way
Rearms == scheduler # NoTimer /\ startsInFlight = 0

Start ==
  /\ nextId + startsInFlight <= MaxTimers
  /\ stopped' = FALSE
  /\ UNCHANGED <<now, files, config>>
  /\ IF Skips(isRunning)
     THEN /\ scheduler' = nextId
          /\ activeIntervals' = {nextId}
          /\ liveTimers' =
               (liveTimers \ Cleared(scheduler, activeIntervals)) \cup {nextId}
          /\ nextId' = nextId + 1
          /\ passes' = Disturbed
          /\ out' = Event("start", "skipped", 200, 0, <<>>, NoFile, "none",
                          Rearms)
          /\ UNCHANGED isRunning
     ELSE /\ executing < MaxPasses
          /\ scheduler' = NoTimer
          /\ activeIntervals' = {}
          /\ liveTimers' = liveTimers \ Cleared(scheduler, activeIntervals)
          /\ isRunning' = TRUE
          /\ passes' = Suspend(Disturbed, NewPass("start", Rearms))
          /\ out' = Event("start", "running", 0, 0, <<>>, <<>>, "none", FALSE)
          /\ UNCHANGED nextId

(***************************************************************************)
(* POST /api/stop-scheduler, lines 228-257                                 *)
(***************************************************************************)
Stop ==
  LET n == stoppedCount(scheduler, activeIntervals)
  IN  /\ liveTimers' = liveTimers \ Cleared(scheduler, activeIntervals)
      /\ scheduler' = NoTimer
      /\ activeIntervals' = {}
      /\ isRunning' = StopFlag
      /\ passes' = Disturbed
      /\ stopped' = TRUE
      /\ out' = IF n > 0
                THEN Event("stop", "stopped", 200, n, <<>>, <<>>, "none",
                           out.op = "stop")
                ELSE Event("stop", "not running", 400, 0, <<>>, <<>>, "none",
                           out.op = "stop")
      /\ UNCHANGED <<nextId, now, files, config>>

(***************************************************************************)
(* GET /api/scheduler-status, lines 265-273                                *)
(* The handler reads the state and changes nothing: its response is a      *)
(* function of the state.                                                  *)
status ==
  [running |-> running(scheduler, activeIntervals),
   activeIntervals |-> Cardinality(activeIntervals),
   nextRun |-> IF running(scheduler, activeIntervals) THEN "active" ELSE "none"]

(***************************************************************************)
(* The callback of an armed timer, lines 198-205, up to the first          *)
(* suspension point of its pass                                            *)
(***************************************************************************)
Tick(t) ==
  /\ t \in liveTimers
  /\ UNCHANGED <<timers, now, files, config, stopped>>
  /\ IF Skips(isRunning)
     THEN /\ out' = Event("tick", "skipped", 0, 0, <<>>, <<>>, "none", FALSE)
          /\ UNCHANGED <<isRunning, passes>>
     ELSE /\ executing < MaxPasses
          /\ isRunning' = TRUE
          /\ passes' = Suspend(passes, NewPass("tick", FALSE))
          /\ out' = Event("tick", "running", 0, 0, <<>>, <<>>, "none", FALSE)

(***************************************************************************)
(* The end of runAutoSearch, lines 141-165, and the continuation of its    *)
(* caller: lines 198-215 or 216-218 in start, lines 201-204 in a tick.     *)
(***************************************************************************)
Finish(ps, allItems, writeOk) ==
  LET error == IF MapThrows(allItems) THEN "TypeError"
               ELSE IF FilterThrows(allItems) THEN "TypeError"
               ELSE IF ~writeOk THEN "EIO" ELSE "none"
      name == filename(now)
      data == filtered(allItems)
  IN  /\ passes' = Leave(passes, ps)
      /\ UNCHANGED <<now, config, stopped>>
      /\ IF error = "none"
         THEN /\ files' = WriteFile(files, name, data)
              /\ isRunning' = FALSE
              /\ IF ps.caller = "start"
                 THEN /\ Arm
                      /\ out' = Event("start", "started", 200, 0, data, name,
                                      "none", ps.rearm)
                 ELSE /\ UNCHANGED timers
                      /\ out' = Event("tick", "saved", 0, 0, data, name,
                                      "none", FALSE)
         ELSE /\ UNCHANGED <<files, timers>>
              /\ IF ps.caller = "start"
                 THEN /\ UNCHANGED isRunning
                      /\ out' = Event("start", "failed", 500, 0, <<>>, <<>>,
                                      error, ps.rearm)
                 ELSE /\ isRunning' = TickCatchFlag
                      /\ out' = Event("tick", "failed", 0, 0, <<>>, <<>>,
                                      error, FALSE)

\* a provider's answer: an HTTP status and the array of the body
Responses == [status : {200}, items : Payloads]
               \cup [status : {429, 500}, items : {<<>>}]

\* allItems.push(...items)
Push(allItems, items) == allItems \o items

\* an activation moves on to its next suspension point
Advance(ps, pc, start, allItems) ==
  /\ passes' = Suspend(Leave(passes, ps),
                       [ps EXCEPT !.pc = pc, !.start = start,
                                  !.allItems = allItems])
  /\ UNCHANGED <<timers, isRunning, now, files, config, stopped>>

Resume(ps, pc, start, allItems) ==
  /\ Advance(ps, pc, start, allItems)
  /\ UNCHANGED out

\* line 93
RateLimited == Event("pass", "rate limited", 429, 0, <<>>, <<>>, "none", FALSE)

(***************************************************************************)
(* One page of the Google search, lines 84-97                              *)
(***************************************************************************)
\* a response brings items only while the pass has room for them
Room(ps, allItems) == allItems = ps.allItems \/ Len(allItems) <= MaxItems

\* pagination that stops at any error
BreaksOnError(code) == code # 200

\* line 92: only a rate-limit response ends the pagination
Breaks(code) == code = 429

\* the continuation of the loop body when the page request answers r
GoogleAnswer(ps, r) ==
  LET allItems == IF r.status = 200 THEN Push(ps.allItems, r.items)
                  ELSE ps.allItems
      next == ps.start + StartStep
  IN  /\ Room(ps, allItems)
      /\ IF Breaks(r.status)
         THEN /\ Advance(ps, "exa_import", 0, allItems)
              /\ out' = RateLimited
         ELSE IF next > LastStart
         THEN Resume(ps, "exa_import", 0, allItems)
         ELSE Resume(ps, "google", next, allItems)

GooglePage(ps) ==
  /\ ps.pc = "google"
  /\ \E r \in Responses : GoogleAnswer(ps, r)

\* lines 122-139: SerpAPI is awaited only when its key is set
AfterExa(ps, allItems, writeOk) ==
  IF serpKey THEN Resume(ps, "serp", 0, allItems)
  ELSE Finish(ps, allItems, writeOk)

(***************************************************************************)
(* The Exa search, lines 104-120: the import, then the search              *)
(***************************************************************************)
ExaImport(ps) ==
  /\ ps.pc = "exa_import"
  /\ \E ok \in BOOLEAN, writeOk \in BOOLEAN :
       IF ok THEN Resume(ps, "exa_search", 0, ps.allItems)
       ELSE AfterExa(ps, ps.allItems, writeOk)


\* lines 112-115
ExaItem(r) == Obj(Or(r.title, r.url), r.url, Undef)

\* the continuation of the try block when the search answers r
ExaAnswer(ps, r, writeOk) ==
  LET throws == r.status # 200 \/ MapThrows(r.items)
      exaItems == [i \in 1..Len(r.items) |-> ExaItem(r.items[i])]
      allItems == IF throws THEN ps.allItems
                  ELSE Push(ps.allItems, exaItems)
  IN  /\ Room(ps, allItems)
      /\ AfterExa(ps, allItems, writeOk)

ExaSearch(ps) ==
  /\ ps.pc = "exa_search"
  /\ \E r \in Responses, writeOk \in BOOLEAN : ExaAnswer(ps, r, writeOk)

(***************************************************************************)
(* The SerpAPI search, lines 123-139, followed by the end of the pass      *)
(***************************************************************************)
\* the continuation of the try block when the search answers r
SerpAnswer(ps, r, writeOk) ==
  LET allItems == IF r.status = 200 THEN Push(ps.allItems, r.items)
                  ELSE ps.allItems
  IN  /\ Room(ps, allItems)
      /\ Finish(ps, allItems, writeOk)

SerpSearch(ps) ==
  /\ ps.pc = "serp"
  /\ \E r \in Responses, writeOk \in BOOLEAN : SerpAnswer(ps, r, writeOk)

(***************************************************************************)
(* GET /api/latest-results, lines 281-294                                  *)
(***************************************************************************)
\* the UTF-16 code unit of a character of a snapshot name
CodeUnit(c) ==
  IF \E i \in 1..10 : DigitChars[i] = c
  THEN 47 + CHOOSE i \in 1..10 : DigitChars[i] = c
  ELSE IF c = "." THEN 46
  ELSE IF c = "_" THEN 95
  ELSE 96 + CHOOSE i \in 1..26 : Lower[i] = c

\* the order of Array.prototype.sort without a comparator: a sorts before b
Before(a, b) ==
  \E i \in 1..Len(b) :
     /\ i <= Len(a) + 1
     /\ \A j \in 1..(i - 1) : a[j] = b[j]
     /\ i = Len(a) + 1 \/ CodeUnit(a[i]) < CodeUnit(b[i])

startsWith(s, prefix) ==
  Len(prefix) <= Len(s) /\ SubSeq(s, 1, Len(prefix)) = prefix

endsWith(s, suffix) ==
  Len(suffix) <= Len(s)
    /\ SubSeq(s, Len(s) - Len(suffix) + 1, Len(s)) = suffix

\* the names left by the filter of line 283
snapshots(fs) ==
  {f.name : f \in {g \in fs : startsWith(g.name, NamePrefix)
                                /\ endsWith(g.name, NameSuffix)}}

\* files[0] after sort().reverse()
latestFile(fs) ==
  CHOOSE n \in snapshots(fs) : \A m \in snapshots(fs) : m = n \/ Before(m, n)

\* the response: 404 without a snapshot, else the content of files[0]
latest(fs) ==
  IF snapshots(fs) = {} THEN [code |-> 404, data |-> <<>>]
  ELSE [code |-> 200,
        data |-> (CHOOSE f \in fs : f.name = latestFile(fs)).data]

\* the clock advances
ClockAdvance ==
  /\ now < MaxClock
  /\ now' = now + 1
  /\ UNCHANGED <<timers, isRunning, passes, files, config, stopped, out>>

Next ==
  \/ Start
  \/ Stop
  \/ \E t \in 1..MaxTimers : Tick(t)
  \/ \E ps \in InFlight : GooglePage(ps)
  \/ \E ps \in InFlight : ExaImport(ps)
  \/ \E ps \in InFlight : ExaSearch(ps)
  \/ \E ps \in InFlight : SerpSearch(ps)
  \/ ClockAdvance

Spec == Init /\ [][Next]_vars

(***************************************************************************)
(* The server started without the Google credentials: the condition of     *)
(* line 83 is false and a pass goes straight to the Exa search.            *)
(***************************************************************************)
InitNoGoogle == Init /\ ~googleCreds

NextNoGoogle ==
  \/ Start
  \/ Stop
  \/ \E t \in 1..MaxTimers : Tick(t)
  \/ \E ps \in InFlight : ExaImport(ps)
  \/ \E ps \in InFlight : ExaSearch(ps)
  \/ \E ps \in InFlight : SerpSearch(ps)
  \/ ClockAdvance

SpecNoGoogle == InitNoGoogle /\ [][NextNoGoogle]_vars

(***************************************************************************)
(* The server boots when Date.now() is BootClock, without the Google       *)
(* credentials, and runs while the clock passes the next power of ten.     *)
(***************************************************************************)
InitLate ==
  /\ scheduler = NoTimer
  /\ isRunning = FALSE
  /\ activeIntervals = {}
  /\ liveTimers = {}
  /\ nextId = 1
  /\ passes = EmptyBag
  /\ now = BootClock
  /\ files = {}
  /\ googleCreds = FALSE
  /\ serpKey \in BOOLEAN
  /\ stopped = FALSE
  /\ out = NoEvent

ClockAdvanceLate ==
  /\ now < BootClock + MaxClock
  /\ now' = now + 1
  /\ UNCHANGED <<timers, isRunning, passes, files, config, stopped, out>>

NextLate ==
  \/ Start
  \/ Stop
  \/ \E t \in 1..MaxTimers : Tick(t)
  \/ \E ps \in InFlight : ExaImport(ps)
  \/ \E ps \in InFlight : ExaSearch(ps)
  \/ \E ps \in InFlight : SerpSearch(ps)
  \/ ClockAdvanceLate

SpecLate == InitLate /\ [][NextLate]_vars

(***************************************************************************)
(* Nobody calls stop: the in-flight flag then keeps the passes apart.      *)
(***************************************************************************)
NextNoStop ==
  \/ Start
  \/ \E t \in 1..MaxTimers : Tick(t)
  \/ \E ps \in InFlight : GooglePage(ps)
  \/ \E ps \in InFlight : ExaImport(ps)
  \/ \E ps \in InFlight : ExaSearch(ps)
  \/ \E ps \in InFlight : SerpSearch(ps)
  \/ ClockAdvance

SpecNoStop == Init /\ [][NextNoStop]_vars

(***************************************************************************)
(* Every provider call fails, by an HTTP error, a rate limit or a body     *)
(* whose array holds a null entry, and nobody calls stop.  The import of   *)
(* exa-js may succeed: the search that follows it fails.                   *)
(***************************************************************************)
Failures == {r \in Responses : r.status # 200 \/ MapThrows(r.items)}

GooglePageFails(ps) ==
  /\ ps.pc = "google"
  /\ \E r \in Failures : GoogleAnswer(ps, r)

ExaSearchFails(ps) ==
  /\ ps.pc = "exa_search"
  /\ \E r \in Failures, writeOk \in BOOLEAN : ExaAnswer(ps, r, writeOk)

SerpSearchFails(ps) ==
  /\ ps.pc = "serp"
  /\ \E r \in Failures, writeOk \in BOOLEAN : SerpAnswer(ps, r, writeOk)

NextAllFail ==
  \/ Start
  \/ \E t \in 1..MaxTimers : Tick(t)
  \/ \E ps \in InFlight : GooglePageFails(ps)
  \/ \E ps \in InFlight : ExaImport(ps)
  \/ \E ps \in InFlight : ExaSearchFails(ps)
  \/ \E ps \in InFlight : SerpSearchFails(ps)
  \/ ClockAdvance

SpecAllFail == Init /\ [][NextAllFail]_vars

(***************************************************************************)
(* The normalize / deduplicate / filter steps on their own: a pass called  *)
(* by the first start is suspended at the SerpAPI call and holds a list of *)
(* raw items collected from the earlier providers; the call answers and    *)
(* the pass ends.                                                          *)
(***************************************************************************)
\* the link of RawIptv again, under another title
RawIptvAgain == Obj(Str(<<"Z">>), Str(<<"I","P","T","V","/","a">>), Undef)
\* a term in the title, none in the link
RawTitleOnly == Obj(Str(<<"i","p","t","v">>), Str(<<"x","/","d">>), Undef)
\* neither link nor url
RawNoLink == Obj(Str(<<"m","3","u">>), Str(<<>>), Undef)

CollectedItems == {RawIptv, RawIptvAgain, RawUrl, RawTitleOnly, RawNoLink,
                   RawNumLink}

Collected == UNION {[1..n -> CollectedItems] : n \in 0..MaxInput}

InitPipeline ==
  /\ scheduler = NoTimer
  /\ isRunning = TRUE
  /\ activeIntervals = {}
  /\ liveTimers = {}
  /\ nextId = 1
  /\ now = 0
  /\ files = {}
  /\ googleCreds = TRUE
  /\ serpKey = TRUE
  /\ stopped = FALSE
  /\ out = Event("start", "running", 0, 0, <<>>, <<>>, "none", FALSE)
  /\ \E allItems \in Collected :
       passes = Suspend(EmptyBag,
                        [NewPass("start", FALSE) EXCEPT !.pc = "serp",
                                                        !.start = 0,
                                                        !.allItems = allItems])

NextPipeline ==
  \/ \E ps \in InFlight : SerpSearch(ps)
  \/ ClockAdvance

SpecPipeline == InitPipeline /\ [][NextPipeline]_vars

(***************************************************************************)
(* Steps the properties speak about                                        *)
(***************************************************************************)
\* an activation in flight without its history field
Core(ps) == [pc |-> ps.pc, start |-> ps.start, allItems |-> ps.allItems,
             caller |-> ps.caller]

\* a start or a tick calls runAutoSearch while the in-flight flag is held
OverlappingTrigger == isRunning /\ (Start \/ \E t \in 1..MaxTimers : Tick(t))

\* the pass awaited by a start ends, and the start answers
StartAnswers(ps) ==
  /\ ps.caller = "start"
  /\ passes' = Leave(passes, ps)
  /\ out'.op = "start"
  /\ out'.note \in {"started", "failed"}

\* a start called while a timer armed by an earlier start is the primary
\* handle and no other start is under way returns, no start or stop having
\* been called in between
SecondStartReturns ==
  \/ Start /\ Rearms /\ Skips(isRunning)
  \/ \E ps \in InFlight : ps.rearm /\ StartAnswers(ps)

\* a pass run by a tick raises an error
TickPassFails ==
  /\ executing' < executing
  /\ out'.op = "tick"
  /\ out'.note = "failed"

(***************************************************************************)
(* Properties                                                              *)
(***************************************************************************)

\* C1: at most one aggregation pass is executing at any time.
AtMostOnePass == executing <= 1

\* C2: a start or a tick that triggers a pass while the in-flight flag is
\* held calls no provider (no activation is added or advanced), writes no
\* snapshot, queues nothing and leaves the in-flight flag unchanged.
OverlappingTriggerIsNoOp ==
  [][OverlappingTrigger =>
       /\ executing' = executing
       /\ {Core(ps) : ps \in InFlight'} = {Core(ps) : ps \in InFlight}
       /\ files' = files
       /\ isRunning' = isRunning
       /\ out'.note = "skipped"]_vars

\* a trigger was skipped while a pass was suspended on a provider call
SkippedWhileInFlight ==
  /\ out.note = "skipped"
  /\ isRunning
  /\ executing >= 1

\* C3, as claimed: when a second start returns, whatever its outcome, the
\* timer armed by the first is cancelled and exactly one timer is live: the
\* primary handle, the only member of the live-handle set.
SecondStartArmsOne ==
  [][SecondStartReturns =>
       /\ scheduler' # NoTimer
       /\ liveTimers' = {scheduler'}
       /\ activeIntervals' = {scheduler'}]_vars

\* C3, amended: the second start cancels the timer armed by the first when it
\* is called; when it reports success exactly one timer is live, a new one,
\* which is the primary handle and the only member of the live-handle set;
\* when its pass raises an error no timer is live and none is tracked.
SecondStartRearms ==
  [][/\ (Start /\ scheduler # NoTimer) => scheduler \notin liveTimers'
     /\ SecondStartReturns =>
          IF out'.code = 200
          THEN /\ scheduler' = nextId
               /\ scheduler' \notin liveTimers
               /\ liveTimers' = {scheduler'}
               /\ activeIntervals' = {scheduler'}
          ELSE /\ scheduler' = NoTimer
               /\ liveTimers' = {}
               /\ activeIntervals' = {}]_vars

\* a second start has answered with success after its own pass
SecondStartSucceeded ==
  /\ out.op = "start"
  /\ out.note = "started"
  /\ out.again
  /\ liveTimers = {scheduler}

\* C4: a start that reports success has run a full pass and returns its
\* result set and the name of the snapshot the pass wrote.
StartSuccessRanPass ==
  (out.op = "start" /\ out.code = 200) =>
     /\ out.note = "started"
     /\ \E f \in files : f.name = out.filename /\ f.data = out.results

\* C5: a stop that follows a stop reports 'not running' and leaves the
\* primary handle absent, the live-handle set empty, the in-flight flag false
\* and the armed timers as they were.
StopIsIdempotent ==
  [][(Stop /\ out.op = "stop") =>
       /\ out'.code = 400
       /\ out'.count = 0
       /\ scheduler' = NoTimer /\ scheduler = NoTimer
       /\ activeIntervals' = {} /\ activeIntervals = {}
       /\ isRunning' = FALSE /\ isRunning = FALSE
       /\ liveTimers' = liveTimers]_vars

\* a stop has followed a stop
StoppedTwice ==
  /\ out.op = "stop"
  /\ out.again
  /\ out.code = 400

\* C6: the count stop reports is the number of timers that were live before
\* the call, and stop reports 'not running' exactly when that number is zero.
StopCountsLiveTimers ==
  [][Stop =>
       /\ out'.count = Cardinality(liveTimers)
       /\ (out'.code = 400) <=> (liveTimers = {})]_vars

\* C7: status reports running exactly when a timer is live, and the number
\* of live timers; the primary handle is present iff the live-handle set is
\* not empty, and the live-handle set is the set of live timers.
StatusTellsLiveTimers ==
  /\ status.running <=> (liveTimers # {})
  /\ status.activeIntervals = Cardinality(liveTimers)
  /\ (scheduler # NoTimer) <=> (activeIntervals # {})
  /\ activeIntervals = liveTimers

\* two timers are live and tracked
TwoTimersTracked ==
  /\ Cardinality(liveTimers) = 2
  /\ status.running
  /\ status.activeIntervals = 2

\* C8: once a stop has returned no timer is live until a start is called.
StopCancelsTriggers == stopped => liveTimers = {}

\* C9: when a pass run by a tick raises an error the in-flight flag is
\* reset and the primary handle, the live-handle set and the armed timers
\* are unchanged, so the next tick of a live timer runs a pass.
TickFailureKeepsTrigger ==
  [][TickPassFails =>
       /\ isRunning' = FALSE
       /\ ~Skips(isRunning')
       /\ scheduler' = scheduler
       /\ activeIntervals' = activeIntervals
       /\ liveTimers' = liveTimers]_vars

\* a tick's pass has failed and its timer is still armed
TickFailedTimerArmed ==
  /\ out.op = "tick"
  /\ out.note = "failed"
  /\ ~isRunning
  /\ liveTimers # {}

\* C10: no pass ends with an error raised by what a provider answered: a
\* pass fails only when the snapshot cannot be written.
ProviderFailureStaysInside == out.error \in {"none", "EIO"}

(***************************************************************************)
(* C11: when every adapter fails in the pass a start awaits, and the       *)
(* snapshot can be written, the start answers 200 with an empty list and   *)
(* the name of a snapshot that holds the empty array, the in-flight flag   *)
(* is cleared and the timer is armed.                                      *)
(***************************************************************************)
AllFailedStartSucceeds ==
  (out.op = "start" /\ out.note \in {"started", "failed"}
                    /\ out.error # "EIO")
    => /\ out.code = 200
       /\ out.results = <<>>
       /\ \E f \in files : f.name = out.filename /\ f.data = <<>>
       /\ ~isRunning
       /\ scheduler # NoTimer /\ scheduler \in liveTimers

(***************************************************************************)
(* C12: the deduplicated list holds exactly one record for each distinct   *)
(* non-empty link of the normalised input, the record of the link's first  *)
(* occurrence, in the order the links were first seen, and no record with  *)
(* an empty link.                                                          *)
(***************************************************************************)
FirstOf(f, link) ==
  CHOOSE i \in 1..Len(f) :
    f[i].link = link /\ \A j \in 1..(i - 1) : f[j].link # link

DeduplicatesByLink ==
  \A ps \in InFlight : ~MapThrows(ps.allItems) =>
    LET f == formatted(ps.allItems)
        u == uniqueResults(ps.allItems)
    IN  /\ \A k \in 1..Len(u) : Truthy(u[k].link)
        /\ \A k, l \in 1..Len(u) : u[k].link = u[l].link => k = l
        /\ \A i \in 1..Len(f) :
             Truthy(f[i].link) => \E k \in 1..Len(u) : u[k].link = f[i].link
        /\ \A k \in 1..Len(u) :
             /\ \E i \in 1..Len(f) : f[i].link = u[k].link
             /\ u[k] = f[FirstOf(f, u[k].link)]
        /\ \A k, l \in 1..Len(u) :
             k < l => FirstOf(f, u[k].link) < FirstOf(f, u[l].link)

\* a list with a repeated link and an empty link, cut down to fewer records
RepeatedLinkDropped ==
  \E ps \in InFlight :
    LET f == formatted(ps.allItems)
        u == uniqueResults(ps.allItems)
    IN  /\ ~MapThrows(ps.allItems)
        /\ \E i, j \in 1..Len(f) :
             i < j /\ f[i].link = f[j].link /\ f[i].title # f[j].title
                   /\ Truthy(f[i].link)
        /\ \E i \in 1..Len(f) : ~Truthy(f[i].link)
        /\ Len(u) = 1

(***************************************************************************)
(* C13: a pass that persists a snapshot persists the deduplicated records  *)
(* whose lower-cased link contains a lower-cased term, in their order, and *)
(* drops the others; the title plays no part.                              *)
(***************************************************************************)
HasTerm(link) ==
  \E k \in 1..Len(AUTO_TERMS) :
     includes(toLowerCase(link.v), toLowerCase(AUTO_TERMS[k]))

RECURSIVE Kept(_)
Kept(u) == IF u = <<>> THEN <<>>
           ELSE IF HasTerm(Head(u).link) THEN <<Head(u)>> \o Kept(Tail(u))
           ELSE Kept(Tail(u))

FilterKeepsLinksWithTerm ==
  [][\A ps \in InFlight : \A r \in Responses :
       (ps.pc = "serp" /\ out'.error = "none" /\ passes' = Leave(passes, ps)
                       /\ SerpAnswer(ps, r, TRUE))
         => LET allItems == IF r.status = 200 THEN ps.allItems \o r.items
                            ELSE ps.allItems
                u == uniqueResults(allItems)
            IN  /\ out'.results = Kept(u)
                /\ \E f \in files' :
                     f.name = out'.filename /\ f.data = Kept(u)
                /\ \A k \in 1..Len(out'.results) :
                     HasTerm(out'.results[k].link)]_vars

\* a persisted snapshot holds the record found under url and the record
\* whose link has a term in upper case, and not the record whose title
\* alone has a term
LinkWithTermPersisted ==
  /\ out.op = "start" /\ out.note = "started"
  /\ out.results = <<Normalize(RawUrl), Normalize(RawIptv)>>
  /\ \E f \in files : f.name = out.filename /\ f.data = out.results

(***************************************************************************)
(* C14: latest-results answers not-found exactly when no snapshot was      *)
(* written, and otherwise returns the snapshot created last: the name      *)
(* sorted first in descending lexicographic order is the name with the     *)
(* greatest timestamp.                                                     *)
(***************************************************************************)
\* the creation time a snapshot name carries
CreatedAt(name) == CHOOSE t \in 0..(BootClock + MaxClock) : filename(t) = name

Newest ==
  CHOOSE f \in files : \A g \in files : CreatedAt(g.name) <= CreatedAt(f.name)

LatestIsNewest ==
  /\ latest(files).code = 404 <=> files = {}
  /\ files # {} => /\ latestFile(files) = Newest.name
                    /\ latest(files).data = Newest.data

(***************************************************************************)
(* C15: the in-flight flag is held only while a pass is executing: in      *)
(* every state with no pass executing the flag is false, also after the    *)
(* pass of a start ended with an error.                                    *)
(***************************************************************************)
FlagOnlyWhilePassRuns == executing = 0 => ~isRunning

(***************************************************************************)
(* C16: at most one timer is armed in every reachable state, also when     *)
(* start calls overlap.                                                    *)
(***************************************************************************)
AtMostOneTimer == Cardinality(liveTimers) <= 1

(***************************************************************************)
(* C18: every pass that completes writes its snapshot under a name no      *)
(* earlier pass wrote.                                                     *)
(***************************************************************************)
SnapshotNamesAreFresh ==
  [][\A ps \in InFlight :
       (passes' = Leave(passes, ps) /\ out'.note \in {"started", "saved"})
         => \A f \in files : f.name # out'.filename]_vars

(***************************************************************************)
(* C17: within a pass every adapter's call is issued before any adapter    *)
(* has settled: no pass awaits a call that was issued after an earlier     *)
(* adapter of the pass had settled.                                        *)
(***************************************************************************)
\* the adapters of the pass that settled before the call it awaits was issued
SettledBefore(ps) ==
  {a \in {"google", "exa"} :
     \/ a = "google" /\ googleCreds /\ ps.pc # "google"
     \/ a = "exa" /\ ps.pc = "serp"}

AdaptersInvokedTogether == \A ps \in InFlight : SettledBefore(ps) = {}

(***************************************************************************)
(* C19: a 429 answer to a Google page ends the page requests of that pass  *)
(* and keeps the items of the pages fetched before it, the pass going on   *)
(* to the Exa adapter and from there to SerpAPI; an error other than 429   *)
(* is followed by the request of the next page; a new pass requests the    *)
(* first page again.                                                       *)
(***************************************************************************)
\* the activation ps is replaced by the activation qs
Becomes(ps, qs) == passes' = Suspend(Leave(passes, ps), qs)

RateLimitEndsPagination ==
  [][/\ \A ps \in InFlight : \A r \in Responses :
          (ps.pc = "google" /\ GoogleAnswer(ps, r)) =>
             /\ r.status = 429 =>
                  Becomes(ps, [ps EXCEPT !.pc = "exa_import", !.start = 0])
             /\ (r.status = 500 /\ ps.start + StartStep <= LastStart) =>
                  Becomes(ps, [ps EXCEPT !.start = ps.start + StartStep])
     /\ \A ps \in InFlight :
          (ps.pc \in {"exa_import", "exa_search"} /\ serpKey
             /\ (ExaImport(ps) \/ ExaSearch(ps)))
            => \E qs \in BagToSet(passes') :
                  /\ qs.pc \in {"exa_search", "serp"}
                  /\ Len(qs.allItems) >= Len(ps.allItems)
                  /\ SubSeq(qs.allItems, 1, Len(ps.allItems)) = ps.allItems
                  /\ Becomes(ps, qs)
     /\ (googleCreds /\ BagCardinality(passes') > executing) =>
          \E qs \in BagToSet(passes') :
             /\ qs.pc = "google" /\ qs.start = FirstStart
             /\ qs.allItems = <<>>
             /\ \E d \in BOOLEAN :
                  passes' = Suspend(Disturbed, [qs EXCEPT !.rearm = d])
                    \/ passes' = Suspend(passes, [qs EXCEPT !.rearm = d])
    ]_vars

\* a pass was rate limited after a page brought an item: it awaits SerpAPI
\* and still holds the item
RateLimitedPassGoesOn ==
  /\ out = RateLimited
  /\ executing = 1
  /\ \E ps \in InFlight : ps.pc = "serp" /\ ps.allItems = <<RawIptv>>

(***************************************************************************)
(* C20: a stop issued while a pass is in flight does not cancel the pass:  *)
(* every activation stays suspended where it was, holding what it held,    *)
(* and when it completes after the stop its snapshot is written although   *)
(* no timer is armed.                                                      *)
(***************************************************************************)
\* the activations of a bag without their history field
CoresOf(bag) ==
  [c \in {Core(ps) : ps \in BagToSet(bag)} |->
     Sum(bag, {ps \in BagToSet(bag) : Core(ps) = c})]

StopLeavesPassRunning ==
  [][/\ Stop => CoresOf(passes') = CoresOf(passes)
     /\ \A ps \in InFlight :
          (stopped /\ passes' = Leave(passes, ps)
                   /\ out'.note \in {"started", "saved"})
            => \E f \in files' :
                  /\ f.name = filename(now)
                  /\ f.data = out'.results
                  /\ f.name = out'.filename
    ]_vars

\* a stop cleared every timer while a tick's pass was in flight, and the
\* pass has since written its snapshot
SavedAfterStop ==
  /\ stopped
  /\ scheduler = NoTimer /\ liveTimers = {}
  /\ out.op = "tick" /\ out.note = "saved"
  /\ \E f \in files : f.name = out.filename /\ f.data = out.results

====
